---- MODULE Spec2Model ----
(***************************************************************************)
(* A state-machine model of jitlog/objects.py: the trace forest that a     *)
(* jitlog decoder builds (TraceForest, Trace, Stage, FlatOp, MergePoint,   *)
(* PointInTrace) and the two algorithms it carries (FlatOp.get_core_dump,  *)
(* iter_ranges).                                                           *)
(*                                                                         *)
(* Objects are modelled by identity: trace_objs is the heap of Trace       *)
(* objects in creation order and a Trace reference is an index into it     *)
(* (0 is Python's None).  An operation is identified by the trace, the     *)
(* stage and the position it was appended at (ops are only appended).      *)
(* Every action models one whole call of the mutation API; a call that     *)
(* raises keeps the assignments made before the raise and records          *)
(* raised = TRUE in ret.                                                   *)
(***************************************************************************)
EXTENDS Integers, Sequences, FiniteSets, TLC

\* ------------------------------------------------------------------ bounds
MaxTraces == 2
MaxAddr == 3
MaxDescr == 2
MaxOps == 2
MaxPointOps == 4
MaxTime == 1
MaxPatches == 2
MaxCount == 2
MaxTotal == 2
MaxBridges == 2
MaxStitchDescr == 1
MaxLen == 3
MaxContent == 3
MaxCoreTraces == 1
MaxCoreOps == 1
MaxCoreAddr == 2
MaxCoreLen == 2
MaxNumbers == 3
MaxDescrOps == 3
MaxSliceOps == 4

\* ---------------------------------------------------------------- encoding
\* Python's None for a Trace reference (Trace.parent)
NoTrace == 0
\* Python's None for FlatOp.descr_number (the constructor default)
NoneNmr == -1
\* Python's None for Trace.last_mark
NoMark == "None"
\* an empty dict
EmptyMap == [x \in {} |-> 0]
\* dict.get(k, default)
Get(d, k, default) == IF k \in DOMAIN d THEN d[k] ELSE default
\* d[k] = v
Put(d, k, v) == [x \in (DOMAIN d) \cup {k} |-> IF x = k THEN v ELSE d[x]]

Uids == 1..MaxTraces
Addrs == 0..MaxAddr
TraceTypes == {"loop", "bridge"}
StageNames == {"noopt", "opt", "asm"}

VARIABLES
    trace_objs,     \* heap of Trace objects, in creation order
    traces,         \* TraceForest.traces: unique_id -> Trace
    addrs,          \* TraceForest.addrs: address -> Trace
    last_trace,     \* TraceForest.last_trace
    timepos,        \* TraceForest.timepos
    patches,        \* TraceForest.patches: list of <<time, addr, content>>
    stitches,       \* TraceForest.stitches: descr number -> unique_id
    descr_nmr_to_point_in_trace,   \* descr number -> PointInTrace
    ret,            \* the last call: its name, arguments, outcome
    added,          \* history: descr number -> counts added through its point
    stitched,       \* history: traces a stitch_bridge call completed on
    fo,             \* a FlatOp.get_core_dump call: its inputs and result
    numbers,        \* iter_ranges: the list passed in
    ranges          \* iter_ranges: what the generator produced

forest == <<trace_objs, traces, addrs, last_trace, timepos, patches, stitches,
            descr_nmr_to_point_in_trace>>
pure == <<fo, numbers, ranges>>
vars == <<trace_objs, traces, addrs, last_trace, timepos, patches, stitches,
          descr_nmr_to_point_in_trace, ret, added, stitched, fo, numbers, ranges>>

TraceRefs == 1..Len(trace_objs)

\* the record of a call: name, Trace argument, integer arguments, string
\* argument, whether it raised, and the returned value (a list of integers)
Call(name, t, args, sarg, raised, value) ==
    [call |-> name, t |-> t, args |-> args, sarg |-> sarg,
     raised |-> raised, value |-> value]

\* ------------------------------------------------------------------- Trace
\* Trace.__init__, and the stamp add_trace gives the new object
NewTrace(trace_type, unique_id, stamp) ==
    [type |-> trace_type, unique_id |-> unique_id, stages |-> EmptyMap,
     last_mark |-> NoMark, addrs |-> <<-1, -1>>, my_patches |-> <<>>,
     counter |-> 0, point_counters |-> EmptyMap, parent |-> NoTrace,
     bridges |-> <<>>, descr_nmr |-> 0, stamp |-> stamp]

\* Trace.is_assembled
is_assembled(tr) == tr.addrs[1] # -1

\* Trace.contains_addr
contains_addr(tr, addr) == tr.addrs[1] <= addr /\ addr <= tr.addrs[2]

\* ------------------------------------------------------------- TraceForest
\* TraceForest.__init__
InitForest ==
    /\ trace_objs = <<>>
    /\ traces = EmptyMap
    /\ addrs = EmptyMap
    /\ last_trace = NoTrace
    /\ timepos = 0
    /\ patches = <<>>
    /\ stitches = EmptyMap
    /\ descr_nmr_to_point_in_trace = EmptyMap
    /\ ret = Call("init", NoTrace, <<>>, "", FALSE, <<>>)
    /\ added = EmptyMap
    /\ stitched = {}

\* no FlatOp.get_core_dump call and no iter_ranges call has been set up
NoFo == [base |-> 0, rel_pos |-> 0, raw |-> <<>>, patches |-> <<>>,
         timeval |-> 0, done |-> FALSE, out |-> <<>>]
NoRanges == [done |-> FALSE, raised |-> FALSE, out |-> <<>>]
InitPure ==
    /\ fo = NoFo
    /\ numbers = <<>>
    /\ ranges = NoRanges

Init == InitForest /\ InitPure

\* TraceForest.get_trace_by_addr
get_trace_by_addr(addr) == Get(addrs, addr, NoTrace)

\* the traces map after add_trace stores the new object under unique_id
AddTraceTraces(unique_id, t) == Put(traces, unique_id, t)

\* TraceForest.add_trace(trace_type, unique_id, trace_nmr)
add_trace(trace_type, unique_id) ==
    /\ LET t == Len(trace_objs) + 1
           trace == NewTrace(trace_type, unique_id, Cardinality(DOMAIN traces))
       IN /\ trace_objs' = Append(trace_objs, trace)
          /\ traces' = AddTraceTraces(unique_id, t)
          /\ last_trace' = t
          /\ ret' = Call("add_trace", t, <<unique_id>>, trace_type, FALSE, <<>>)
    /\ UNCHANGED <<addrs, timepos, patches, stitches,
                   descr_nmr_to_point_in_trace, added, stitched, pure>>

\* Trace.set_addr_bounds(a, b): the range is assigned before the check, the
\* check looks only for the start address as a key of the index
set_addr_bounds(t, a, b) ==
    /\ trace_objs' = [trace_objs EXCEPT ![t].addrs = <<a, b>>]
    /\ IF a \in DOMAIN addrs
       THEN /\ ret' = Call("set_addr_bounds", t, <<a, b>>, "", TRUE, <<>>)
            /\ UNCHANGED addrs
       ELSE /\ addrs' = Put(addrs, a, t)
            /\ ret' = Call("set_addr_bounds", t, <<a, b>>, "", FALSE, <<>>)
    /\ UNCHANGED <<traces, last_trace, timepos, patches, stitches,
                   descr_nmr_to_point_in_trace, added, stitched, pure>>

\* ------------------------------------------------------------------- Stage
\* Stage.__init__
NewStage(mark, timeval) == [mark |-> mark, ops |-> <<>>, timeval |-> timeval]

\* Stage.get_op(i), as a list of zero or one operation; indices count from 0
get_op(stage, i) ==
    IF i < 0 \/ Len(stage.ops) <= i THEN <<>> ELSE <<stage.ops[i + 1]>>

\* Stage.get_last_op, as a list of zero or one operation
get_last_op(stage) ==
    IF Len(stage.ops) = 0 THEN <<>> ELSE <<stage.ops[Len(stage.ops)]>>

\* Stage.append_op: the operation gets its position as index
append_op_keep_index(stage, op) == [stage EXCEPT !.ops = Append(stage.ops, op)]
append_op(stage, op) ==
    [stage EXCEPT !.ops = Append(stage.ops, [op EXCEPT !.index = Len(stage.ops)])]

\* -------------------------------------------------------------- operations
\* FlatOp.__init__: descr is whether a descr value was passed (not None),
\* no core dump yet, index -1
FlatOp(opname, descr, descr_number) ==
    [is_debug |-> FALSE, opname |-> opname, descr |-> descr,
     descr_number |-> descr_number, core_dump |-> <<>>, index |-> -1]

\* MergePoint.__init__ stores the values only: the object has no opname, no
\* descr and no descr_number attribute (is_debug marks such an object)
MergePoint ==
    [is_debug |-> TRUE, opname |-> "None", descr |-> FALSE,
     descr_number |-> NoneNmr, core_dump |-> <<>>, index |-> -1]

\* FlatOp.has_descr() / MergePoint.has_descr()
has_descr(op) == IF op.is_debug THEN FALSE ELSE op.descr

\* FlatOp.getname() / MergePoint.getname()
getname(op) == IF op.is_debug THEN "None" ELSE op.opname

\* the operations the decoder appends: a debug merge point, a label carrying
\* a descr, the counter increment, and a plain operation without a descr
IncName == "increment_debug_counter"
Label(d) == FlatOp("label", TRUE, d)
IncOp == FlatOp(IncName, FALSE, NoneNmr)
PlainOp == FlatOp("int_add", FALSE, NoneNmr)
DescrNmrs == 0..MaxDescr

\* ------------------------------------------------------------ PointInTrace
\* PointInTrace.__init__(trace, op): op is the stage and index of the label
\* in that trace; inc_op is None
NewPoint(t, stage_name, index) ==
    [trace |-> t, op |-> <<stage_name, index>>, inc_op |-> <<>>]

\* PointInTrace.set_inc_op: the first increment op stays
set_inc_op(pit, opref) ==
    IF pit.inc_op = <<>> THEN [pit EXCEPT !.inc_op = opref] ELSE pit

\* TraceForest.get_point_in_trace_by_descr, as a list of zero or one point
get_point_in_trace_by_descr(descr) ==
    IF descr \in DOMAIN descr_nmr_to_point_in_trace
    THEN <<descr_nmr_to_point_in_trace[descr]>> ELSE <<>>

\* the operations held by all stages of all traces
RECURSIVE SumLen(_, _)
SumLen(stages, names) ==
    IF names = {} THEN 0
    ELSE LET n == CHOOSE x \in names : TRUE
         IN Len(stages[n].ops) + SumLen(stages, names \ {n})
RECURSIVE OpsFrom(_)
OpsFrom(t) ==
    IF t > Len(trace_objs) THEN 0
    ELSE SumLen(trace_objs[t].stages, DOMAIN trace_objs[t].stages) + OpsFrom(t + 1)
TotalOps == OpsFrom(1)

\* --------------------------------------------------- Trace: stage machine
MARK_TRACE == "MARK_TRACE"
MARK_TRACE_OPT == "MARK_TRACE_OPT"
MARK_TRACE_ASM == "MARK_TRACE_ASM"
MARK_OTHER == "MARK_RESOP"
Marks == {MARK_TRACE, MARK_TRACE_OPT, MARK_TRACE_ASM, MARK_OTHER}

\* the stage name start_mark derives from the mark
MarkName(mark) ==
    IF mark = MARK_TRACE_OPT THEN "opt"
    ELSE IF mark = MARK_TRACE_ASM THEN "asm" ELSE "noopt"

\* start_mark returns early: a generic mark while the last mark is noopt
Reentry(tr, mark) ==
    /\ mark \notin {MARK_TRACE_OPT, MARK_TRACE_ASM}
    /\ tr.last_mark = MarkName(mark)

\* the stages after start_mark entered mark_name at forest time tick
EnterStageFresh(tr, mark_name, tick) ==
    Put(tr.stages, mark_name, NewStage(mark_name, tick))
EnterStage(tr, mark_name, tick) ==
    IF mark_name \in DOMAIN tr.stages THEN tr.stages
    ELSE Put(tr.stages, mark_name, NewStage(mark_name, tick))

\* Trace.start_mark(mark); the value is <<>> for None and <<timeval>> for
\* the stage returned
start_mark(t, mark) ==
    LET tr == trace_objs[t]
        mark_name == MarkName(mark)
    IN /\ IF mark \notin {MARK_TRACE, MARK_TRACE_OPT, MARK_TRACE_ASM}
          THEN /\ ret' = Call("start_mark", t, <<>>, mark, TRUE, <<>>)
               /\ UNCHANGED trace_objs
          ELSE IF Reentry(tr, mark)
          THEN /\ ret' = Call("start_mark", t, <<>>, mark, FALSE, <<>>)
               /\ UNCHANGED trace_objs
          ELSE LET stages == EnterStage(tr, mark_name, timepos)
               IN /\ trace_objs' = [trace_objs EXCEPT
                                      ![t].last_mark = mark_name,
                                      ![t].stages = stages]
                  /\ ret' = Call("start_mark", t, <<>>, mark, FALSE,
                                 <<stages[mark_name].timeval>>)
       /\ UNCHANGED <<traces, addrs, last_trace, timepos, patches, stitches,
                      descr_nmr_to_point_in_trace, added, stitched, pure>>

\* TraceForest.time_tick
time_tick ==
    /\ timepos' = timepos + 1
    /\ ret' = Call("time_tick", NoTrace, <<>>, "", FALSE, <<>>)
    /\ UNCHANGED <<trace_objs, traces, addrs, last_trace, patches, stitches,
                   descr_nmr_to_point_in_trace, added, stitched, pure>>

\* add_instr, the descr part: the table after an operation with a descr was
\* appended at <<t, stage_name, index>>
RegisterDescrLast(op, t, stage_name, index) ==
    IF has_descr(op) /\ op.descr_number # 0
    THEN Put(descr_nmr_to_point_in_trace, op.descr_number,
             NewPoint(t, stage_name, index))
    ELSE descr_nmr_to_point_in_trace
RegisterDescr(op, t, stage_name, index) ==
    IF has_descr(op) /\ op.descr_number # 0
       /\ op.descr_number \notin DOMAIN descr_nmr_to_point_in_trace
    THEN Put(descr_nmr_to_point_in_trace, op.descr_number,
             NewPoint(t, stage_name, index))
    ELSE descr_nmr_to_point_in_trace

\* add_instr, the counter part: does the lookup of the point of the previous
\* operation raise?  A MergePoint has no descr_number attribute, a
\* descr_number of None fails the isinstance assertion, and a descr without
\* a registered point gives None, whose set_inc_op does not exist.
IncRaises(prev, dict) ==
    /\ prev # <<>>
    /\ \/ prev[1].is_debug
       \/ prev[1].descr_number = NoneNmr
       \/ prev[1].descr_number \notin DOMAIN dict

\* Trace.add_instr(op)
add_instr(t, op) ==
    LET tr == trace_objs[t]
    IN /\ IF tr.last_mark = NoMark
          THEN /\ ret' = Call("add_instr", t, <<>>, getname(op), TRUE, <<>>)
               /\ UNCHANGED <<trace_objs, descr_nmr_to_point_in_trace>>
          ELSE LET name == tr.last_mark
                   stage == append_op(tr.stages[name], op)
                   index == Len(stage.ops) - 1
                   dict == RegisterDescr(op, t, name, index)
                   isinc == getname(op) = IncName
                   prev == get_op(stage, index - 1)
                   raises == isinc /\ IncRaises(prev, dict)
                   nmr == prev[1].descr_number
               IN /\ trace_objs' = [trace_objs EXCEPT ![t].stages[name] = stage]
                  /\ descr_nmr_to_point_in_trace' =
                        IF isinc /\ prev # <<>> /\ ~raises
                        THEN [dict EXCEPT
                                ![nmr] = set_inc_op(dict[nmr], <<t, name, index>>)]
                        ELSE dict
                  /\ ret' = Call("add_instr", t, <<index>>, getname(op),
                                 raises, <<>>)
       /\ UNCHANGED <<traces, addrs, last_trace, timepos, patches, stitches,
                      added, stitched, pure>>

\* the counters after PointInTrace.add_up_enter_count added count for pit
AddCountOverwrite(counters, i, count) == Put(counters, i, count)
AddCount(counters, i, count) == Put(counters, i, Get(counters, i, 0) + count)

\* PointInTrace.add_up_enter_count(count) on the point registered for descr;
\* the value is <<0>> for False and <<1>> for True
point_add_up_enter_count(descr, count) ==
    LET pit == descr_nmr_to_point_in_trace[descr]
    IN /\ descr \in DOMAIN descr_nmr_to_point_in_trace
       /\ IF pit.inc_op = <<>>
          THEN /\ ret' = Call("point_add_up_enter_count", pit.trace,
                              <<descr, count>>, "", FALSE, <<0>>)
               /\ UNCHANGED <<trace_objs, added>>
          ELSE LET i == pit.inc_op[3]
               IN /\ trace_objs' = [trace_objs EXCEPT
                        ![pit.trace].point_counters = AddCount(@, i, count)]
                  /\ added' = Put(added, descr, Get(added, descr, 0) + count)
                  /\ ret' = Call("point_add_up_enter_count", pit.trace,
                                 <<descr, count>>, "", FALSE, <<1>>)
       /\ UNCHANGED <<traces, addrs, last_trace, timepos, patches, stitches,
                      descr_nmr_to_point_in_trace, stitched, pure>>

\* Trace.add_up_enter_count(count)
trace_add_up_enter_count(t, count) ==
    /\ trace_objs' = [trace_objs EXCEPT ![t].counter = @ + count]
    /\ ret' = Call("trace_add_up_enter_count", t, <<count>>, "", FALSE, <<>>)
    /\ UNCHANGED <<traces, addrs, last_trace, timepos, patches, stitches,
                   descr_nmr_to_point_in_trace, added, stitched, pure>>

\* ---------------------------------------------------------------- stitching
\* the bridges list of the parent after a link was made
LinkBridge(bridges, b) == Append(bridges, b)

\* the heap after trace b got descr_number and, when a point is registered
\* for it, was linked to the point's trace (the tail of stitch_bridge and of
\* redirect_assembler)
LinkedOnlyWithPoint(b, descr_number) ==
    IF descr_number \notin DOMAIN descr_nmr_to_point_in_trace
    THEN trace_objs
    ELSE [[trace_objs EXCEPT
             ![b].descr_nmr = descr_number,
             ![b].parent = descr_nmr_to_point_in_trace[descr_number].trace]
          EXCEPT
             ![descr_nmr_to_point_in_trace[descr_number].trace].bridges =
                 LinkBridge(@, b)]
Linked(b, descr_number) ==
    IF descr_number \notin DOMAIN descr_nmr_to_point_in_trace
    THEN [trace_objs EXCEPT ![b].descr_nmr = descr_number]
    ELSE [[trace_objs EXCEPT
             ![b].descr_nmr = descr_number,
             ![b].parent = descr_nmr_to_point_in_trace[descr_number].trace]
          EXCEPT
             ![descr_nmr_to_point_in_trace[descr_number].trace].bridges =
                 LinkBridge(@, b)]

\* may the link be made within the bound on the bridges lists?
LinkFits(descr_number) ==
    descr_number \in DOMAIN descr_nmr_to_point_in_trace =>
        Len(trace_objs[descr_nmr_to_point_in_trace[descr_number].trace].bridges)
            < MaxBridges

\* the assertion of stitch_bridge: a bridge can only be stitched once
StitchedBefore(bridge) == bridge.descr_nmr # 0

\* TraceForest.stitch_bridge(descr_number, addr_to)
stitch_bridge(descr_number, addr_to) ==
    LET b == get_trace_by_addr(addr_to)
    IN /\ IF b = NoTrace \/ StitchedBefore(trace_objs[b])
          THEN /\ ret' = Call("stitch_bridge", b, <<descr_number, addr_to>>, "",
                              TRUE, <<>>)
               /\ UNCHANGED <<trace_objs, stitches, stitched>>
          ELSE /\ trace_objs' = Linked(b, descr_number)
               /\ stitches' = Put(stitches, descr_number, trace_objs[b].unique_id)
               /\ stitched' = stitched \cup {b}
               /\ ret' = Call("stitch_bridge", b, <<descr_number, addr_to>>, "",
                              FALSE, <<>>)
       /\ UNCHANGED <<traces, addrs, last_trace, timepos, patches,
                      descr_nmr_to_point_in_trace, added, pure>>

\* TraceForest.redirect_assembler(descr_number, new_descr_nmr, addr_to)
redirect_assembler(descr_number, new_descr_nmr, addr_to) ==
    LET b == get_trace_by_addr(addr_to)
    IN /\ IF b = NoTrace
          THEN /\ ret' = Call("redirect_assembler", b,
                              <<descr_number, new_descr_nmr, addr_to>>, "",
                              TRUE, <<>>)
               /\ UNCHANGED <<trace_objs, stitches>>
          ELSE /\ trace_objs' = Linked(b, descr_number)
               /\ stitches' = Put(stitches, descr_number, trace_objs[b].unique_id)
               /\ ret' = Call("redirect_assembler", b,
                              <<descr_number, new_descr_nmr, addr_to>>, "",
                              FALSE, <<>>)
       /\ UNCHANGED <<traces, addrs, last_trace, timepos, patches,
                      descr_nmr_to_point_in_trace, added, stitched, pure>>

\* ------------------------------------------------------ core-dump patching
\* Python's seq[:k] and seq[k:]: a negative k counts from the end, and an
\* index outside the sequence is clamped to it
PyIndex(seq, k) ==
    IF k < 0 THEN (IF Len(seq) + k < 0 THEN 0 ELSE Len(seq) + k)
    ELSE (IF k > Len(seq) THEN Len(seq) ELSE k)
SliceTo(seq, k) == SubSeq(seq, 1, PyIndex(seq, k))
SliceFrom(seq, k) == SubSeq(seq, PyIndex(seq, k) + 1, Len(seq))

\* a 2**31-1, "a very high number"
VeryHighNumber == 2147483647

\* the body of the loop of FlatOp.get_core_dump after the time check: the
\* buffer with one patch <<timepos, addr, content>> spliced in
Splice(coredump, patch, base_addr, op_off) ==
    LET content == patch[3]
        patch_start == (patch[2] - base_addr) - op_off
        end0 == patch_start + Len(content)
        clip == end0 >= Len(coredump)
        patch_end == IF clip THEN Len(coredump) ELSE end0
        content_end == IF clip THEN patch_end - patch_start ELSE Len(content) - 1
    IN SliceTo(coredump, patch_start) \o SliceTo(content, content_end)
          \o SliceFrom(coredump, patch_end)

\* one iteration of the loop: a patch recorded after timeval is skipped
ApplyPatchAlways(coredump, patch, base_addr, op_off, timeval) ==
    Splice(coredump, patch, base_addr, op_off)
ApplyPatch(coredump, patch, base_addr, op_off, timeval) ==
    IF timeval < patch[1] THEN coredump
    ELSE Splice(coredump, patch, base_addr, op_off)

\* FlatOp.get_core_dump(base_addr, patches, timeval) for an operation whose
\* core_dump is <<rel_pos, raw>>
RECURSIVE ApplyFrom(_, _, _, _, _, _)
ApplyFrom(coredump, ps, k, base_addr, op_off, timeval) ==
    IF k > Len(ps) THEN coredump
    ELSE ApplyFrom(ApplyPatch(coredump, ps[k], base_addr, op_off, timeval),
                   ps, k + 1, base_addr, op_off, timeval)
FlatOp_get_core_dump(core_dump, base_addr, ps, timeval) ==
    ApplyFrom(core_dump[2], ps, 1, base_addr, core_dump[1], timeval)

\* TraceForest.patch_memory(addr, content, timeval)
patch_memory(addr, content, timeval) ==
    /\ patches' = Append(patches, <<timeval, addr, content>>)
    /\ ret' = Call("patch_memory", NoTrace, <<addr, timeval>>, "", FALSE, content)
    /\ UNCHANGED <<trace_objs, traces, addrs, last_trace, timepos, stitches,
                   descr_nmr_to_point_in_trace, added, stitched, pure>>

\* Trace.set_core_dump_to_last_op(rel_pos, dump): raises when no mark was
\* started, when the stage is empty (None has no set_core_dump) and when the
\* last operation is a MergePoint
set_core_dump_to_last_op(t, rel_pos, dump) ==
    LET tr == trace_objs[t]
    IN /\ IF \/ tr.last_mark = NoMark
             \/ Len(tr.stages[tr.last_mark].ops) = 0
             \/ tr.stages[tr.last_mark].ops[Len(tr.stages[tr.last_mark].ops)].is_debug
          THEN /\ ret' = Call("set_core_dump_to_last_op", t, <<rel_pos>>, "",
                              TRUE, dump)
               /\ UNCHANGED trace_objs
          ELSE /\ trace_objs' = [trace_objs EXCEPT
                     ![t].stages[tr.last_mark].ops[Len(tr.stages[tr.last_mark].ops)].core_dump
                         = <<rel_pos, dump>>]
               /\ ret' = Call("set_core_dump_to_last_op", t, <<rel_pos>>, "",
                              FALSE, dump)
       /\ UNCHANGED <<traces, addrs, last_trace, timepos, patches, stitches,
                      descr_nmr_to_point_in_trace, added, stitched, pure>>

\* Trace.contains_patch
contains_patch(tr, addr) == tr.addrs[1] <= addr /\ addr <= tr.addrs[2]

\* the patch subset get_core_dump computes when my_patches is None
InRange(tr, ps) == SelectSeq(ps, LAMBDA patch : contains_patch(tr, patch[2]))

\* Trace.my_patches after the lazy initialisation in get_core_dump
MyPatches(tr) ==
    IF tr.my_patches = <<>> THEN InRange(tr, patches) ELSE tr.my_patches[1]

\* Stage.get_ops(debug), as the list the generator yields
get_ops(stage, debug) ==
    SelectSeq(stage.ops, LAMBDA op : ~debug /\ ~op.is_debug)

\* a call of Stage.get_ops(debug) on stage name of trace t, run to its end;
\* the value is the list of the index attributes of the operations yielded
stage_get_ops(t, name, debug) ==
    /\ name \in DOMAIN trace_objs[t].stages
    /\ LET ops == get_ops(trace_objs[t].stages[name], debug)
       IN ret' = Call("get_ops", t, <<IF debug THEN 1 ELSE 0>>, name, FALSE,
                      [k \in 1..Len(ops) |-> ops[k].index])
    /\ UNCHANGED <<forest, added, stitched, pure>>

\* the timeval get_core_dump works with: -1 stands for the latest state
EffectiveTime(timeval) == IF timeval = -1 THEN VeryHighNumber ELSE timeval

\* the upper end of the slice: -1 is replaced by len(opslice), the length
\* of the pair
SliceEnd(opslice) == IF opslice[2] = -1 THEN Len(opslice) ELSE opslice[2]

\* the operations get_core_dump visits: position i (from 0) of get_ops()
\* with start <= i <= end
Visited(tr, opslice) ==
    LET ops == get_ops(tr.stages["asm"], FALSE)
    IN SelectSeq([k \in 1..Len(ops) |-> [op |-> ops[k], i |-> k - 1]],
                 LAMBDA e : opslice[1] <= e.i /\ e.i <= SliceEnd(opslice))

\* the loop of Trace.get_core_dump and the join of the dumps
RECURSIVE JoinDumps(_, _, _, _, _)
JoinDumps(vis, k, base_addr, ps, timeval) ==
    IF k > Len(vis) THEN <<>>
    ELSE FlatOp_get_core_dump(vis[k].op.core_dump, base_addr, ps, timeval)
            \o JoinDumps(vis, k + 1, base_addr, ps, timeval)
TraceDump(tr, ps, timeval, opslice) ==
    JoinDumps(Visited(tr, opslice), 1, tr.addrs[1], ps, timeval)

\* Trace.get_core_dump(timeval, opslice); the value is the joined dump,
\* and <<-1>> stands for None ("no core dump"); raises when a visited
\* operation has no core dump (None is not subscriptable)
NoDump == <<-1>>
get_core_dump(t, timeval, opslice) ==
    LET tr == trace_objs[t]
        mine == MyPatches(tr)
        args == <<timeval, opslice[1], opslice[2]>>
    IN /\ trace_objs' = [trace_objs EXCEPT ![t].my_patches = <<mine>>]
       /\ IF "asm" \notin DOMAIN tr.stages
          THEN ret' = Call("get_core_dump", t, args, "", FALSE, NoDump)
          ELSE IF \E k \in 1..Len(Visited(tr, opslice)) :
                     Visited(tr, opslice)[k].op.core_dump = <<>>
          THEN ret' = Call("get_core_dump", t, args, "", TRUE, <<>>)
          ELSE ret' = Call("get_core_dump", t, args, "", FALSE,
                           TraceDump(tr, mine, EffectiveTime(timeval), opslice))
       /\ UNCHANGED <<traces, addrs, last_trace, timepos, patches, stitches,
                      descr_nmr_to_point_in_trace, added, stitched, pure>>

\* FlatOp.get_core_dump called on operation k of the asm stage of a trace,
\* with the trace's start address and the forest's patch log
op_get_core_dump(t, k, timeval) ==
    LET op == trace_objs[t].stages["asm"].ops[k]
    IN /\ ret' = IF op.is_debug \/ op.core_dump = <<>>
                 THEN Call("op_get_core_dump", t, <<timeval, k>>, "", TRUE, <<>>)
                 ELSE Call("op_get_core_dump", t, <<timeval, k>>, "", FALSE,
                           FlatOp_get_core_dump(op.core_dump,
                               trace_objs[t].addrs[1], patches, timeval))
       /\ UNCHANGED <<forest, added, stitched, pure>>

\* FlatOp.get_core_dump on the inputs held in fo
fo_get_core_dump ==
    /\ ~fo.done
    /\ fo' = [fo EXCEPT !.done = TRUE,
                        !.out = FlatOp_get_core_dump(<<fo.rel_pos, fo.raw>>,
                                    fo.base, fo.patches, fo.timeval)]
    /\ ret' = Call("fo_get_core_dump", NoTrace, <<fo.timeval>>, "", FALSE, <<>>)
    /\ UNCHANGED <<forest, added, stitched, numbers, ranges>>

\* ------------------------------------------------------------- iter_ranges
\* the gap that makes iter_ranges close a span
GapThreshold == 50

\* the test that closes the current span when value i is read
ClosesSpan(i, first, last) == (i - first) > GapThreshold

\* the loop of iter_ranges over the sorted list, from position k, with the
\* current span <<first, last>>: the spans yielded, as <<first, last>> pairs
\* (range(first, last+1) holds first..last)
RECURSIVE SpansFrom(_, _, _, _)
SpansFrom(sorted, k, first, last) ==
    IF k > Len(sorted) THEN << <<first, last>> >>
    ELSE IF ClosesSpan(sorted[k], first, last)
         THEN << <<first, last>> >> \o SpansFrom(sorted, k + 1, sorted[k], sorted[k])
         ELSE SpansFrom(sorted, k + 1, first, sorted[k])

\* iter_ranges(numbers), run to its end: the list is sorted in place.  On an
\* empty list the generator raises StopIteration itself: that ends it
\* without a span on Python 2 and on Python 3 before 3.7, and surfaces as a
\* RuntimeError from 3.7 on (PEP 479); the module runs on both (PY3), so
\* both outcomes are possible.  The raise inside the loop is never reached
\* (pos + 1 < len(numbers) holds for every pos of numbers[1:]).
iter_ranges ==
    /\ ~ranges.done
    /\ IF Len(numbers) = 0
       THEN /\ \E r \in BOOLEAN :
                  ranges' = [done |-> TRUE, raised |-> r, out |-> <<>>]
            /\ UNCHANGED numbers
       ELSE LET sorted == SortSeq(numbers, LAMBDA a, b : a < b)
            IN /\ numbers' = sorted
               /\ ranges' = [done |-> TRUE, raised |-> FALSE,
                             out |-> SpansFrom(sorted, 2, sorted[1], sorted[1])]
    /\ ret' = Call("iter_ranges", NoTrace, <<>>, "", ranges'.raised, <<>>)
    /\ UNCHANGED <<forest, added, stitched, fo>>

\* -------------------------------------------------- address registration
NextAddr ==
    \/ \E ty \in TraceTypes, u \in Uids :
          Len(trace_objs) < MaxTraces /\ add_trace(ty, u)
    \/ \E t \in TraceRefs, a \in Addrs, b \in Addrs :
          a <= b /\ set_addr_bounds(t, a, b)

SpecAddr == Init /\ [][NextAddr]_vars

\* C1: any two distinct traces that both have a defined address range have
\* disjoint inclusive ranges, and a set_addr_bounds call whose range meets the
\* range another trace holds raises instead of being registered.
Disjoint(r1, r2) == r1[2] < r2[1] \/ r2[2] < r1[1]
C1_RangesDisjoint ==
    /\ \A t1 \in TraceRefs, t2 \in TraceRefs :
          (t1 # t2 /\ is_assembled(trace_objs[t1]) /\ is_assembled(trace_objs[t2]))
              => Disjoint(trace_objs[t1].addrs, trace_objs[t2].addrs)
    /\ (ret.call = "set_addr_bounds" /\ ~ret.raised) =>
          \A t2 \in TraceRefs \ {ret.t} :
              is_assembled(trace_objs[t2]) =>
                  ~contains_addr(trace_objs[t2], ret.args[1])

\* C7: the traces map has exactly one entry per completed add_trace, and an
\* add_trace with a unique_id that is already registered raises and leaves
\* the registered trace in place.
C7_AddTraceRejectsDuplicate ==
    /\ Cardinality(DOMAIN traces) = Len(trace_objs)
    /\ \A t \in TraceRefs : traces[trace_objs[t].unique_id] = t

\* C19: the address index and the ranges of the traces agree: addrs maps a
\* to trace t exactly when the range of t starts at a; a set_addr_bounds
\* call that raises leaves the range of its trace and the index as they
\* were.
C19_IndexAgrees ==
    \A a \in Addrs, t \in TraceRefs :
        (a \in DOMAIN addrs /\ addrs[a] = t)
            <=> (is_assembled(trace_objs[t]) /\ trace_objs[t].addrs[1] = a)
C19_Step ==
    (ret'.call = "set_addr_bounds" /\ ret'.raised) =>
        /\ trace_objs' = trace_objs
        /\ addrs' = addrs
C19_IndexMatchesRanges == []C19_IndexAgrees /\ [][C19_Step]_vars

\* ------------------------------------------------------- the stage machine
\* The calls that read or write Trace.stages and Trace.last_mark; the
\* operations appended here carry no descr.
FreshUid == Len(trace_objs) + 1
MarkOps == {MergePoint, PlainOp}

NextMark ==
    \/ Len(trace_objs) < MaxTraces /\ add_trace("loop", FreshUid)
    \/ timepos < MaxTime /\ time_tick
    \/ \E t \in TraceRefs, m \in Marks : start_mark(t, m)
    \/ \E t \in TraceRefs, op \in MarkOps :
          TotalOps < MaxOps /\ add_instr(t, op)

SpecMark == Init /\ [][NextMark]_vars

\* C10: a start_mark requesting opt or asm makes the stage of that name the
\* active stage, creating it (empty, stamped with the forest clock) only if
\* the trace has none of that name; a generic trace mark while the last mark
\* is noopt changes nothing of the trace; add_instr appends to the active
\* stage and to no other.
C10_StartMarkStep ==
    LET t == ret'.t
        old == trace_objs[t]
        new == trace_objs'[t]
        name == MarkName(ret'.sarg)
    IN /\ (ret'.call = "start_mark" /\ ret'.sarg \in {MARK_TRACE_OPT, MARK_TRACE_ASM}) =>
            /\ ~ret'.raised
            /\ new.last_mark = name
            /\ name \in DOMAIN new.stages
            /\ \A n \in DOMAIN old.stages : new.stages[n] = old.stages[n]
            /\ DOMAIN new.stages = DOMAIN old.stages \cup {name}
            /\ name \notin DOMAIN old.stages =>
                  new.stages[name] = NewStage(name, timepos)
       /\ (ret'.call = "start_mark" /\ ret'.sarg = MARK_TRACE
             /\ old.last_mark = "noopt") =>
            /\ ~ret'.raised
            /\ new = old
       /\ ret'.call = "start_mark" =>
            \A u \in TraceRefs \ {t} : trace_objs'[u] = trace_objs[u]
       /\ (ret'.call = "add_instr" /\ old.last_mark # NoMark) =>
            /\ new.last_mark = old.last_mark
            /\ DOMAIN new.stages = DOMAIN old.stages
            /\ \A n \in DOMAIN old.stages :
                  IF n = old.last_mark
                  THEN /\ Len(new.stages[n].ops) = Len(old.stages[n].ops) + 1
                       /\ SubSeq(new.stages[n].ops, 1, Len(old.stages[n].ops))
                             = old.stages[n].ops
                  ELSE new.stages[n] = old.stages[n]
C10_StageTransition == [][C10_StartMarkStep]_vars

\* C10 happens: a generic mark arrived while noopt was active and held
\* operations, after the trace had also entered opt
C10_Witness ==
    /\ ret.call = "start_mark" /\ ret.sarg = MARK_TRACE /\ ~ret.raised
    /\ ret.value = <<>>
    /\ "opt" \in DOMAIN trace_objs[ret.t].stages
    /\ Len(trace_objs[ret.t].stages["noopt"].ops) > 0

\* C11: over start_mark and add_instr calls (each add_instr receiving a newly
\* constructed operation), the stage names of a trace only grow and stay
\* within noopt, opt, asm; the operations a stage held stay where they are
\* and new ones come at the tail, also after the trace left the stage and
\* came back; the operation at position i of a stage has index i; the
\* timeval of a stage never changes.
C11_Indexed ==
    \A t \in TraceRefs :
        /\ DOMAIN trace_objs[t].stages \subseteq StageNames
        /\ \A n \in DOMAIN trace_objs[t].stages :
              \A k \in 1..Len(trace_objs[t].stages[n].ops) :
                  trace_objs[t].stages[n].ops[k].index = k - 1
C11_Step ==
    \A t \in TraceRefs :
        /\ DOMAIN trace_objs[t].stages \subseteq DOMAIN trace_objs'[t].stages
        /\ \A n \in DOMAIN trace_objs[t].stages :
              /\ trace_objs'[t].stages[n].timeval = trace_objs[t].stages[n].timeval
              /\ trace_objs'[t].stages[n].mark = trace_objs[t].stages[n].mark
              /\ Len(trace_objs[t].stages[n].ops) <= Len(trace_objs'[t].stages[n].ops)
              /\ SubSeq(trace_objs'[t].stages[n].ops, 1,
                        Len(trace_objs[t].stages[n].ops))
                    = trace_objs[t].stages[n].ops
C11_StagesAppendOnly == []C11_Indexed /\ [][C11_Step]_vars

\* C11 happens: a trace entered noopt, later (the clock had moved) opt, came
\* back to noopt, and the last call appended to noopt, which holds two
\* operations
C11_Witness ==
    /\ ret.call = "add_instr" /\ ~ret.raised
    /\ LET tr == trace_objs[ret.t]
       IN /\ tr.last_mark = "noopt"
          /\ "opt" \in DOMAIN tr.stages
          /\ tr.stages["noopt"].timeval < tr.stages["opt"].timeval
          /\ Len(tr.stages["noopt"].ops) = 2
          /\ ret.args = <<1>>

\* ------------------------------------------------- reading a stage
\* The calls that fill a stage with operations and merge points, and
\* Stage.get_ops with both values of its flag.
NextOps ==
    \/ Len(trace_objs) < MaxCoreTraces /\ add_trace("loop", FreshUid)
    \/ \E t \in TraceRefs : start_mark(t, MARK_TRACE_OPT)
    \/ \E t \in TraceRefs, op \in MarkOps :
          TotalOps < MaxPointOps /\ add_instr(t, op)
    \/ \E t \in TraceRefs, name \in StageNames, debug \in BOOLEAN :
          stage_get_ops(t, name, debug)

SpecOps == Init /\ [][NextOps]_vars

\* the positions (from 0) of a list of operations that satisfy Keep
Positions(ops, Keep(_)) ==
    LET idx == [k \in 1..Len(ops) |-> k - 1]
    IN SelectSeq(idx, LAMBDA i : Keep(ops[i + 1]))

\* C15: get_ops yields the operations of the stage in append order: all of
\* them when debug operations are asked for, those that are no merge points
\* otherwise; the call leaves the stage as it was.
C15_Yielded ==
    ret.call = "get_ops" =>
        LET ops == trace_objs[ret.t].stages[ret.sarg].ops
        IN /\ ~ret.raised
           /\ ret.value = IF ret.args[1] = 1
                          THEN Positions(ops, LAMBDA op : TRUE)
                          ELSE Positions(ops, LAMBDA op : ~op.is_debug)
C15_Step == ret'.call = "get_ops" => trace_objs' = trace_objs
C15_GetOps == []C15_Yielded /\ [][C15_Step]_vars

\* ------------------------------------------------ points and enter counts
\* The calls that read or write the descr table, the points' increment ops
\* and the point counters.
PointOps == {IncOp} \cup {Label(d) : d \in 1..MaxDescr}
PointMarks == {MARK_TRACE_OPT, MARK_TRACE_ASM}
Counts == 1..MaxCount

NextPoint ==
    \/ Len(trace_objs) < MaxTraces /\ add_trace("loop", FreshUid)
    \/ \E t \in TraceRefs, m \in PointMarks : start_mark(t, m)
    \/ \E t \in TraceRefs, op \in PointOps :
          TotalOps < MaxPointOps /\ add_instr(t, op)
    \/ \E d \in DescrNmrs, c \in Counts :
          /\ d \in DOMAIN descr_nmr_to_point_in_trace
          /\ Get(added, d, 0) + c <= MaxTotal
          /\ point_add_up_enter_count(d, c)

SpecPoint == Init /\ [][NextPoint]_vars

\* C9 as claimed: for every point with an increment op, the owning trace's
\* counter at the increment op's index equals the sum of the counts passed
\* to that point's add_up_enter_count.
PointsWithInc ==
    {d \in DOMAIN descr_nmr_to_point_in_trace :
        descr_nmr_to_point_in_trace[d].inc_op # <<>>}
CounterOf(d) ==
    LET pit == descr_nmr_to_point_in_trace[d]
    IN Get(trace_objs[pit.trace].point_counters, pit.inc_op[3], 0)
C9_PerPointTotal == \A d \in PointsWithInc : CounterOf(d) = Get(added, d, 0)

\* C9 as amended: a call on a point without increment op returns False and
\* changes no trace; a call on a point with one adds count to the owning
\* trace's counter at the increment op's index and changes nothing else; so
\* every counter equals the sum of the counts passed to all the points of
\* that trace whose increment op has that index.
RECURSIVE SumAdded(_)
SumAdded(ds) ==
    IF ds = {} THEN 0
    ELSE LET d == CHOOSE x \in ds : TRUE
         IN Get(added, d, 0) + SumAdded(ds \ {d})
SharingKey(t, i) ==
    {d \in PointsWithInc :
        /\ descr_nmr_to_point_in_trace[d].trace = t
        /\ descr_nmr_to_point_in_trace[d].inc_op[3] = i}
C9_Sums ==
    \A t \in TraceRefs :
        /\ \A i \in DOMAIN trace_objs[t].point_counters :
              trace_objs[t].point_counters[i] = SumAdded(SharingKey(t, i))
        /\ \A d \in PointsWithInc :
              descr_nmr_to_point_in_trace[d].trace = t =>
                  Get(trace_objs[t].point_counters,
                      descr_nmr_to_point_in_trace[d].inc_op[3], 0)
                    = SumAdded(SharingKey(t, descr_nmr_to_point_in_trace[d].inc_op[3]))
C9_Step ==
    ret'.call = "point_add_up_enter_count" =>
        LET pit == descr_nmr_to_point_in_trace[ret'.args[1]]
            count == ret'.args[2]
        IN /\ ~ret'.raised
           /\ descr_nmr_to_point_in_trace' = descr_nmr_to_point_in_trace
           /\ IF pit.inc_op = <<>>
              THEN ret'.value = <<0>> /\ trace_objs' = trace_objs
              ELSE /\ ret'.value = <<1>>
                   /\ \A t \in TraceRefs :
                         /\ [trace_objs'[t] EXCEPT !.point_counters = EmptyMap]
                              = [trace_objs[t] EXCEPT !.point_counters = EmptyMap]
                         /\ \A i \in DOMAIN trace_objs'[t].point_counters :
                               trace_objs'[t].point_counters[i] =
                                  Get(trace_objs[t].point_counters, i, 0) +
                                  (IF t = pit.trace /\ i = pit.inc_op[3]
                                   THEN count ELSE 0)
                         /\ DOMAIN trace_objs[t].point_counters
                               \subseteq DOMAIN trace_objs'[t].point_counters
C9_CounterSums == []C9_Sums /\ [][C9_Step]_vars

\* C9 happens: two points of one trace whose increment ops have the same
\* index have both been counted, the last call adding to an earlier total
C9_Witness ==
    /\ ret.call = "point_add_up_enter_count" /\ ret.value = <<1>>
    /\ \E d1 \in PointsWithInc, d2 \in PointsWithInc :
          /\ d1 # d2
          /\ d2 \in SharingKey(descr_nmr_to_point_in_trace[d1].trace,
                               descr_nmr_to_point_in_trace[d1].inc_op[3])
          /\ Get(added, d1, 0) > ret.args[2]
          /\ Get(added, d2, 0) > 0
          /\ ret.args[1] = d1

\* -------------------------------------------------- the descr table
\* The calls that write descr_nmr_to_point_in_trace, with every kind of
\* operation: merge points, plain operations, the counter increment and
\* labels of every descr number, 0 included.
DescrOps == {MergePoint, PlainOp, IncOp} \cup {Label(d) : d \in DescrNmrs}

NextDescr ==
    \/ Len(trace_objs) < MaxTraces /\ add_trace("loop", FreshUid)
    \/ \E t \in TraceRefs, m \in PointMarks : start_mark(t, m)
    \/ \E t \in TraceRefs, op \in DescrOps :
          TotalOps < MaxDescrOps /\ add_instr(t, op)

SpecDescr == Init /\ [][NextDescr]_vars

\* the operation the last add_instr call appended (the call reached a stage)
Appended ==
    trace_objs[ret.t].stages[trace_objs[ret.t].last_mark].ops[ret.args[1] + 1]

\* C12: an add_instr of an operation with a descr of non-zero number n
\* registers the point <<this trace, this operation>> under n exactly when n
\* has no entry; the trace and the label of an entry never change afterwards
\* and no entry is removed; an operation with descr number 0 is appended and
\* registers nothing, and 0 is never a key of the table.
C12_NoZeroKey == 0 \notin DOMAIN descr_nmr_to_point_in_trace
C12_Step ==
    (ret'.call = "add_instr" /\ ret'.args # <<>>) =>
        LET t == ret'.t
            name == trace_objs'[t].last_mark
            index == ret'.args[1]
            op == trace_objs'[t].stages[name].ops[index + 1]
            old == descr_nmr_to_point_in_trace
            new == descr_nmr_to_point_in_trace'
        IN /\ Len(trace_objs'[t].stages[name].ops)
                 = Len(trace_objs[t].stages[name].ops) + 1
           /\ index = Len(trace_objs[t].stages[name].ops)
           /\ \A n \in DOMAIN old :
                 /\ n \in DOMAIN new
                 /\ new[n].trace = old[n].trace
                 /\ new[n].op = old[n].op
           /\ \A n \in DOMAIN new \ DOMAIN old :
                 /\ has_descr(op) /\ n = op.descr_number /\ n # 0
                 /\ new[n].trace = t
                 /\ new[n].op = <<name, index>>
           /\ (has_descr(op) /\ op.descr_number # 0) =>
                 op.descr_number \in DOMAIN new
C12_FirstDescrWins == []C12_NoZeroKey /\ [][C12_Step]_vars

\* C12 happens: the last add_instr appended a label whose descr number was
\* registered before, by another trace, and a label with descr number 0 sits
\* in a stage
C12_Witness ==
    /\ ret.call = "add_instr" /\ ret.args # <<>>
    /\ has_descr(Appended) /\ Appended.descr_number # 0
    /\ descr_nmr_to_point_in_trace[Appended.descr_number].trace # ret.t
    /\ \E t \in TraceRefs : \E n \in DOMAIN trace_objs[t].stages :
          \E k \in 1..Len(trace_objs[t].stages[n].ops) :
              /\ has_descr(trace_objs[t].stages[n].ops[k])
              /\ trace_objs[t].stages[n].ops[k].descr_number = 0

\* C13: an add_instr of a counter increment, made while a stage is active,
\* never raises and appends the operation; when the operation before it has
\* a descr number with a registered point, that point gets the operation as
\* its increment op (unless it has one) and no other point changes; when
\* there is no operation before it, or that one is a merge point, has no
\* descr, or has a descr number without a point, no point changes.
C13_Step ==
    (/\ ret'.call = "add_instr"
     /\ ret'.sarg = IncName
     /\ trace_objs[ret'.t].last_mark # NoMark) =>
        LET t == ret'.t
            name == trace_objs[t].last_mark
            index == Len(trace_objs[t].stages[name].ops)
            prev == get_op(trace_objs[t].stages[name], index - 1)
            old == descr_nmr_to_point_in_trace
            new == descr_nmr_to_point_in_trace'
            hit == /\ prev # <<>>
                   /\ has_descr(prev[1])
                   /\ prev[1].descr_number \in DOMAIN old
        IN /\ ~ret'.raised
           /\ Len(trace_objs'[t].stages[name].ops) = index + 1
           /\ getname(trace_objs'[t].stages[name].ops[index + 1]) = IncName
           /\ DOMAIN new = DOMAIN old
           /\ \A n \in DOMAIN old :
                 new[n] = IF hit /\ n = prev[1].descr_number
                          THEN set_inc_op(old[n], <<t, name, index>>)
                          ELSE old[n]
C13_IncrementNeverRaises == [][C13_Step]_vars

\* C14: the increment op of a point, when set, is the counter increment
\* that sits in the point's trace, in the stage of the point's label, right
\* after the label; and once set it is never replaced.
C14_Located ==
    \A n \in DOMAIN descr_nmr_to_point_in_trace :
        LET pit == descr_nmr_to_point_in_trace[n]
        IN pit.inc_op # <<>> =>
              /\ pit.inc_op = <<pit.trace, pit.op[1], pit.op[2] + 1>>
              /\ getname(trace_objs[pit.inc_op[1]].stages[pit.inc_op[2]]
                             .ops[pit.inc_op[3] + 1]) = IncName
C14_Step ==
    \A n \in DOMAIN descr_nmr_to_point_in_trace :
        descr_nmr_to_point_in_trace[n].inc_op # <<>> =>
            descr_nmr_to_point_in_trace'[n].inc_op
                = descr_nmr_to_point_in_trace[n].inc_op
C14_IncOpFollowsLabel == []C14_Located /\ [][C14_Step]_vars

\* ----------------------------------------------------------------- stitching
\* The calls that read or write descr_nmr, parent, bridges and the stitch
\* table; the end of an address range is not read by any of them.
StitchAddrs == 0..1
StitchOps == {Label(d) : d \in 1..MaxStitchDescr}
StitchDescrs == 0..MaxStitchDescr

NextStitch ==
    \/ Len(trace_objs) < MaxTraces /\ add_trace("bridge", FreshUid)
    \/ \E t \in TraceRefs, a \in StitchAddrs : set_addr_bounds(t, a, a)
    \/ \E t \in TraceRefs : start_mark(t, MARK_TRACE_OPT)
    \/ \E t \in TraceRefs, op \in StitchOps :
          TotalOps < MaxOps /\ add_instr(t, op)
    \/ \E d \in StitchDescrs, a \in StitchAddrs :
          LinkFits(d) /\ stitch_bridge(d, a)
    \/ \E d \in StitchDescrs, a \in StitchAddrs :
          LinkFits(d) /\ redirect_assembler(d, 0, a)

SpecStitch == Init /\ [][NextStitch]_vars

\* C5: once a stitch_bridge call completed on a trace, every later
\* stitch_bridge call on that trace raises and leaves descr_nmr, parent, the
\* stitch table and every bridges list unchanged.
C5_Step ==
    (ret'.call = "stitch_bridge" /\ ret'.t \in stitched) =>
        /\ ret'.raised
        /\ trace_objs' = trace_objs
        /\ stitches' = stitches
C5_StitchOnce == [][C5_Step]_vars

\* C6: a stitch_bridge(d, addr_to) call on a trace that no stitch_bridge call
\* completed on before and whose descr_nmr is 0, made while a point is
\* registered for d, sets the bridge's parent to the point's
\* trace, its descr_nmr to d and stitches[d] to its unique_id, leaves the
\* bridge exactly once in the parent's bridges list, at the tail, and changes
\* no other parent or bridges list.
Occurrences(seq, x) == Cardinality({k \in 1..Len(seq) : seq[k] = x})
C6_Step ==
    (/\ ret'.call = "stitch_bridge"
     /\ ret'.t # NoTrace
     /\ ret'.t \notin stitched
     /\ trace_objs[ret'.t].descr_nmr = 0
     /\ ret'.args[1] \in DOMAIN descr_nmr_to_point_in_trace) =>
        LET b == ret'.t
            d == ret'.args[1]
            p == descr_nmr_to_point_in_trace[d].trace
        IN /\ ~ret'.raised
           /\ trace_objs'[b].parent = p
           /\ trace_objs'[b].descr_nmr = d
           /\ stitches'[d] = trace_objs[b].unique_id
           /\ Occurrences(trace_objs'[p].bridges, b) = 1
           /\ trace_objs'[p].bridges = Append(trace_objs[p].bridges, b)
           /\ \A u \in TraceRefs :
                 /\ u # b => trace_objs'[u].parent = trace_objs[u].parent
                 /\ u # p => trace_objs'[u].bridges = trace_objs[u].bridges
C6_StitchLinksOnce == [][C6_Step]_vars

\* C17: a stitch_bridge(d, addr_to) call that finds a trace with descr_nmr 0
\* at addr_to while no point is registered for d does not raise, sets the
\* trace's descr_nmr to d and stitches[d] to its unique_id, and leaves every
\* parent and every bridges list as it was; no call other than stitch_bridge
\* and redirect_assembler (in particular no add_instr that registers the
\* point later) changes a parent, a bridges list, a descr_nmr or the stitch
\* table.
C17_Step ==
    /\ (/\ ret'.call = "stitch_bridge"
        /\ ret'.t # NoTrace
        /\ trace_objs[ret'.t].descr_nmr = 0
        /\ ret'.args[1] \notin DOMAIN descr_nmr_to_point_in_trace) =>
           /\ ~ret'.raised
           /\ trace_objs'[ret'.t].descr_nmr = ret'.args[1]
           /\ ret'.args[1] \in DOMAIN stitches'
           /\ stitches'[ret'.args[1]] = trace_objs[ret'.t].unique_id
           /\ \A u \in TraceRefs :
                 /\ trace_objs'[u].parent = trace_objs[u].parent
                 /\ trace_objs'[u].bridges = trace_objs[u].bridges
    /\ ret'.call \notin {"stitch_bridge", "redirect_assembler"} =>
           /\ stitches' = stitches
           /\ \A u \in TraceRefs :
                 /\ trace_objs'[u].parent = trace_objs[u].parent
                 /\ trace_objs'[u].bridges = trace_objs[u].bridges
                 /\ trace_objs'[u].descr_nmr = trace_objs[u].descr_nmr
C17_ForwardStitchNotRetried == [][C17_Step]_vars

\* C17 happens: the last call was an add_instr that registered the point of
\* a descr number a trace had been stitched to before, by a stitch_bridge
\* that found no point: the trace has no parent and no trace has a bridge
C17_Witness ==
    /\ ret.call = "add_instr" /\ ret.args # <<>>
    /\ has_descr(Appended)
    /\ Appended.descr_number \in DOMAIN descr_nmr_to_point_in_trace
    /\ descr_nmr_to_point_in_trace[Appended.descr_number]
          = NewPoint(ret.t, trace_objs[ret.t].last_mark, ret.args[1])
    /\ \E b \in stitched :
          /\ trace_objs[b].descr_nmr = Appended.descr_number
          /\ trace_objs[b].parent = NoTrace
          /\ Appended.descr_number \in DOMAIN stitches
          /\ stitches[Appended.descr_number] = trace_objs[b].unique_id
    /\ \A u \in TraceRefs : trace_objs[u].bridges = <<>>

\* C18: parent and bridges agree: trace b has parent p exactly when b occurs
\* in the bridges list of p, and no trace occurs twice in a bridges list.
C18_LinksConsistent ==
    \A b \in TraceRefs, p \in TraceRefs :
        /\ (trace_objs[b].parent = p) <=> (Occurrences(trace_objs[p].bridges, b) > 0)
        /\ Occurrences(trace_objs[p].bridges, b) <= 1

\* ------------------------------------------- FlatOp.get_core_dump, alone
\* The inputs: raw bytes 1, 2, .. (each position its own value), patch
\* contents 11, 12, .., at most MaxPatches patches.
Raw(n) == [k \in 1..n |-> k]
Content(n) == [k \in 1..n |-> 10 + k]
PatchSet ==
    {<<tp, a, Content(n)>> : tp \in 0..MaxTime, a \in Addrs, n \in 0..MaxContent}
PatchLists == UNION {[1..n -> PatchSet] : n \in 0..MaxPatches}

InitDump ==
    /\ InitForest
    /\ numbers = <<>>
    /\ ranges = NoRanges
    /\ \E base \in 0..1, rel_pos \in 0..MaxLen, n \in 1..MaxLen,
          ps \in PatchLists, timeval \in -1..(MaxTime + 1) :
          fo = [base |-> base, rel_pos |-> rel_pos, raw |-> Raw(n),
                patches |-> ps, timeval |-> timeval, done |-> FALSE,
                out |-> <<>>]

NextDump == fo_get_core_dump

SpecDump == InitDump /\ [][NextDump]_vars

\* where a patch starts relative to the first byte of the operation in fo
PatchStart(patch) == (patch[2] - fo.base) - fo.rel_pos

\* C2: with a single patch whose bytes lie inside the operation's bytes,
\* reconstruction at a time >= the patch's time gives the raw bytes with the
\* patch content written at its offset (same length), and at an earlier time
\* gives the raw bytes.
C2_SinglePatchSplice ==
    (/\ fo.done
     /\ Len(fo.patches) = 1
     /\ fo.patches[1][2] >= fo.base
     /\ PatchStart(fo.patches[1]) >= 0
     /\ PatchStart(fo.patches[1]) + Len(fo.patches[1][3]) <= Len(fo.raw)) =>
        LET p == PatchStart(fo.patches[1])
            c == fo.patches[1][3]
        IN IF fo.timeval >= fo.patches[1][1]
           THEN fo.out = [k \in 1..Len(fo.raw) |->
                            IF p < k /\ k <= p + Len(c) THEN c[k - p]
                            ELSE fo.raw[k]]
           ELSE fo.out = fo.raw

\* C4: patches of the trace's range none of which overlaps the operation's
\* bytes (each ends at or before its first byte, or starts at or after its
\* end) leave the reconstructed bytes equal to the raw bytes.
Outside(patch) ==
    /\ patch[2] >= fo.base
    /\ \/ PatchStart(patch) + Len(patch[3]) <= 0
       \/ PatchStart(patch) >= Len(fo.raw)
C4_OutsidePatchesIgnored ==
    (fo.done /\ \A k \in 1..Len(fo.patches) : Outside(fo.patches[k])) =>
        fo.out = fo.raw

\* --------------------------------------------- core dumps of the forest
\* The calls that read or write what Trace.get_core_dump reads: the asm
\* stage, the core dumps of its operations, the address range, the patch
\* log and the cached patch subset.
CoreAddrs == 0..MaxCoreAddr
CoreDumps == {Raw(MaxCoreLen)}
CoreContents == {Content(n) : n \in 1..MaxCoreLen}
DefaultSlice == <<0, -1>>

NextCore ==
    \/ Len(trace_objs) < MaxCoreTraces /\ add_trace("loop", FreshUid)
    \/ \E t \in TraceRefs, a \in CoreAddrs, b \in CoreAddrs :
          a <= b /\ set_addr_bounds(t, a, b)
    \/ \E t \in TraceRefs : start_mark(t, MARK_TRACE_ASM)
    \/ \E t \in TraceRefs : TotalOps < MaxCoreOps /\ add_instr(t, PlainOp)
    \/ \E t \in TraceRefs, r \in 0..1, dump \in CoreDumps :
          set_core_dump_to_last_op(t, r, dump)
    \/ timepos < MaxTime /\ time_tick
    \/ \E a \in CoreAddrs, c \in CoreContents :
          Len(patches) < MaxPatches /\ patch_memory(a, c, timepos)
    \/ \E t \in TraceRefs, timeval \in -1..MaxTime :
          get_core_dump(t, timeval, DefaultSlice)
    \/ \E t \in TraceRefs, timeval \in -1..MaxTime :
          /\ "asm" \in DOMAIN trace_objs[t].stages
          /\ \E k \in 1..Len(trace_objs[t].stages["asm"].ops) :
                op_get_core_dump(t, k, timeval)

SpecCore == Init /\ [][NextCore]_vars

\* the patches of a list recorded at or before time T
UpTo(ps, T) == SelectSeq(ps, LAMBDA patch : patch[1] <= T)

\* C3 as claimed: the dump Trace.get_core_dump(T) returns is the one built
\* from the patches recorded at or before T alone, for every T passed.
C3_NoLaterPatch ==
    (ret.call = "get_core_dump" /\ ~ret.raised /\ ret.value # NoDump) =>
        LET tr == trace_objs[ret.t]
        IN ret.value = TraceDump(tr, UpTo(tr.my_patches[1], ret.args[1]),
                                 VeryHighNumber, <<ret.args[2], ret.args[3]>>)

\* C3 as amended: FlatOp.get_core_dump(T) builds the dump from the patches
\* recorded at or before T alone, for every T; Trace.get_core_dump(T) does so
\* for every T but -1, and for T = -1 (its default, "the latest state") from
\* the patches recorded at or before 2**31-1.
C3_NoLaterPatchButDefault ==
    /\ (ret.call = "get_core_dump" /\ ~ret.raised /\ ret.value # NoDump) =>
          LET tr == trace_objs[ret.t]
              T == IF ret.args[1] = -1 THEN VeryHighNumber ELSE ret.args[1]
          IN ret.value = TraceDump(tr, UpTo(tr.my_patches[1], T),
                                   VeryHighNumber, <<ret.args[2], ret.args[3]>>)
    /\ (ret.call = "op_get_core_dump" /\ ~ret.raised) =>
          LET tr == trace_objs[ret.t]
              op == tr.stages["asm"].ops[ret.args[2]]
          IN ret.value = FlatOp_get_core_dump(op.core_dump, tr.addrs[1],
                              UpTo(patches, ret.args[1]), VeryHighNumber)

\* C3 happens: a dump was asked for time 0 of a trace that has a patch
\* recorded at time 0 and one recorded later in its range, and the patch of
\* time 0 shows in the dump
C3_Witness ==
    /\ ret.call = "get_core_dump" /\ ~ret.raised /\ ret.args[1] = 0
    /\ ret.value # NoDump
    /\ LET tr == trace_objs[ret.t]
       IN /\ \E k \in 1..Len(tr.my_patches[1]) : tr.my_patches[1][k][1] > 0
          /\ \E k \in 1..Len(tr.my_patches[1]) : tr.my_patches[1][k][1] = 0
          /\ ret.value # TraceDump(tr, <<>>, 0, DefaultSlice)

\* C20: the patch subset a trace caches is always the part of the forest's
\* patch log that lies in the trace's range, so the dump get_core_dump(T)
\* returns is built from every logged patch in the trace's range recorded
\* at or before T (-1 standing for the latest state), whatever was asked
\* before.
C20_CacheIsCurrent ==
    /\ \A t \in TraceRefs :
          trace_objs[t].my_patches # <<>> =>
              trace_objs[t].my_patches[1] = InRange(trace_objs[t], patches)
    /\ (ret.call = "get_core_dump" /\ ~ret.raised /\ ret.value # NoDump) =>
          LET tr == trace_objs[ret.t]
          IN ret.value = TraceDump(tr, InRange(tr, patches),
                                   EffectiveTime(ret.args[1]),
                                   <<ret.args[2], ret.args[3]>>)

\* ------------------------------------------- core dumps of a long stage
\* The calls that build an asm stage of several instructions, each with its
\* core dump, and Trace.get_core_dump with the default and explicit slices.
SliceDumps == {<<1>>, <<2>>}
Slices == {DefaultSlice, <<0, 0>>, <<1, 2>>, <<0, 3>>}

NextSlice ==
    \/ Len(trace_objs) < MaxCoreTraces /\ add_trace("loop", FreshUid)
    \/ \E t \in TraceRefs : start_mark(t, MARK_TRACE_ASM)
    \/ \E t \in TraceRefs : TotalOps < MaxSliceOps /\ add_instr(t, PlainOp)
    \/ \E t \in TraceRefs, dump \in SliceDumps :
          set_core_dump_to_last_op(t, 0, dump)
    \/ \E t \in TraceRefs, opslice \in Slices : get_core_dump(t, -1, opslice)

SpecSlice == Init /\ [][NextSlice]_vars

\* the instructions of the asm stage at positions lo..hi of get_ops()
InSlice(tr, lo, hi) ==
    LET ops == get_ops(tr.stages["asm"], FALSE)
    IN SelectSeq([k \in 1..Len(ops) |-> [op |-> ops[k], i |-> k - 1]],
                 LAMBDA e : lo <= e.i /\ e.i <= hi)

\* C16: get_core_dump returns the no-dump value, without raising, when the
\* trace has no asm stage; otherwise, when every instruction it covers has a
\* core dump, it returns the reconstructed bytes of the covered instructions
\* joined in stage order: all instructions of the stage for the default
\* slice, those at positions start..end for an explicit one.
C16_DefaultCoversAll ==
    ret.call = "get_core_dump" =>
        LET tr == trace_objs[ret.t]
            lo == IF <<ret.args[2], ret.args[3]>> = DefaultSlice
                  THEN 0 ELSE ret.args[2]
            hi == IF <<ret.args[2], ret.args[3]>> = DefaultSlice
                  THEN Len(tr.stages["asm"].ops) ELSE ret.args[3]
        IN IF "asm" \notin DOMAIN tr.stages
           THEN ~ret.raised /\ ret.value = NoDump
           ELSE (\A k \in 1..Len(InSlice(tr, lo, hi)) :
                    InSlice(tr, lo, hi)[k].op.core_dump # <<>>) =>
                  /\ ~ret.raised
                  /\ ret.value = JoinDumps(InSlice(tr, lo, hi), 1, tr.addrs[1],
                                     tr.my_patches[1], EffectiveTime(ret.args[1]))

\* ------------------------------------------------------ iter_ranges, alone
\* The inputs: every list of at most MaxNumbers of these line numbers, and
\* the list 5, 6, 7, 200, 201.
LineNumbers == {5, 6, 7, 42, 80, 200, 201}
NumberLists ==
    UNION {[1..n -> LineNumbers] : n \in 0..MaxNumbers} \cup {<<5, 6, 7, 200, 201>>}

InitRanges ==
    /\ InitForest
    /\ fo = NoFo
    /\ ranges = NoRanges
    /\ numbers \in NumberLists

NextRanges == iter_ranges

SpecRanges == InitRanges /\ [][NextRanges]_vars

\* C8: iter_ranges ends normally; its spans are in ascending order and start
\* and end at input numbers; every input number lies in exactly one span; two
\* consecutive values of the sorted input lie in the same span exactly when
\* they differ by at most 50; so 5, 6, 7, 200, 201 gives <<5, 7>>, <<200, 201>>,
\* a single v gives <<v, v>> and the empty list gives no span.
SpansOf(n) == {k \in 1..Len(ranges.out) : ranges.out[k][1] <= n /\ n <= ranges.out[k][2]}
InputSet == {numbers[k] : k \in 1..Len(numbers)}
C8_RangesByGap ==
    ranges.done =>
        /\ ~ranges.raised
        /\ \A k \in 1..Len(ranges.out) :
              /\ ranges.out[k][1] \in InputSet
              /\ ranges.out[k][2] \in InputSet
              /\ ranges.out[k][1] <= ranges.out[k][2]
              /\ k < Len(ranges.out) => ranges.out[k][2] < ranges.out[k + 1][1]
        /\ \A n \in InputSet : Cardinality(SpansOf(n)) = 1
        /\ \A j \in 1..(Len(numbers) - 1) :
              (SpansOf(numbers[j]) = SpansOf(numbers[j + 1]))
                  <=> (numbers[j + 1] - numbers[j] <= GapThreshold)
        /\ numbers = <<>> => ranges.out = <<>>
        /\ numbers = <<5, 6, 7, 200, 201>> =>
              ranges.out = << <<5, 7>>, <<200, 201>> >>

\* ------------------------------------------------------- the whole forest
\* Every call of the mutation and query API.  The specifications above are
\* this one restricted to the calls that read or write the state a group of
\* claims is about, with the inputs that state depends on.
Next ==
    \/ \E ty \in TraceTypes, u \in Uids :
          Len(trace_objs) < MaxTraces /\ add_trace(ty, u)
    \/ \E t \in TraceRefs, a \in Addrs, b \in Addrs :
          a <= b /\ set_addr_bounds(t, a, b)
    \/ timepos < MaxTime /\ time_tick
    \/ \E t \in TraceRefs, m \in Marks : start_mark(t, m)
    \/ \E t \in TraceRefs, op \in {MergePoint, IncOp, PlainOp} \cup
                                  {Label(d) : d \in DescrNmrs} :
          TotalOps < MaxPointOps /\ add_instr(t, op)
    \/ \E t \in TraceRefs, r \in 0..1, dump \in CoreDumps :
          set_core_dump_to_last_op(t, r, dump)
    \/ \E a \in Addrs, c \in CoreContents :
          Len(patches) < MaxPatches /\ patch_memory(a, c, timepos)
    \/ \E t \in TraceRefs, timeval \in -1..MaxTime :
          get_core_dump(t, timeval, DefaultSlice)
    \/ \E d \in DescrNmrs, a \in Addrs : LinkFits(d) /\ stitch_bridge(d, a)
    \/ \E d \in DescrNmrs, a \in Addrs :
          LinkFits(d) /\ redirect_assembler(d, 0, a)
    \/ \E d \in DescrNmrs, c \in Counts :
          /\ d \in DOMAIN descr_nmr_to_point_in_trace
          /\ Get(added, d, 0) + c <= MaxTotal
          /\ point_add_up_enter_count(d, c)
    \/ \E t \in TraceRefs, c \in Counts :
          trace_objs[t].counter + c <= MaxCount /\ trace_add_up_enter_count(t, c)
    \/ \E t \in TraceRefs, name \in StageNames, debug \in BOOLEAN :
          stage_get_ops(t, name, debug)

Spec == Init /\ [][Next]_vars

====
